---- MODULE Spec2Model ----
(***************************************************************************)
(* Connector descriptor table, connector matching and connector instances  *)
(* of link-grammar/connectors.h.                                           *)
(*                                                                         *)
(* Strings are sequences of character codes; the C string's terminating    *)
(* NUL is the code 0 read at position Len(s)+1.  A 32-bit word is a pair   *)
(* <<hi, lo>> of 16-bit halves.  A malloc'ed condesc_t is an index into    *)
(* the sequence ct.descs; the NULL pointer is the index 0.                 *)
(***************************************************************************)
EXTENDS Integers, Sequences, FiniteSets, TLC

\* ------------------------------------------------------------------------
\* Bounds of the model
\* ------------------------------------------------------------------------
\* Largest capacity hint is 2^MaxHintLog.
MaxHintLog == 2
\* Number of condesc_add calls made on one table.
MaxCalls == 4
\* Longest uppercase core of the generated connector strings.
MaxCore == 1
\* Longest suffix of the generated connector strings.
MaxSuf == 1
\* Largest short_length / length_limit value drawn for connector_new.
MaxLimit == 6
\* Longest length-limit rule queue of a dictionary.
MaxRules == 2
\* Largest table capacity looked at for the home slots is 2^MaxSizeLog.
MaxSizeLog == 17

\* ------------------------------------------------------------------------
\* Program constants
\* ------------------------------------------------------------------------
LC_BITS == 7
LC_MASK == 127
UNLIMITED_LEN == 255
CONDESC_TABLE_GROW_FACTOR == 2
\* Width in bits of connector_hash_size (uint16_t).
HASH_SIZE_BITS == 16
\* Number of LC_BITS-wide letters that fit into lc_enc_t (uint64_t).
MAX_LC_LETTERS == 9

NULL == 0
NUL == 0

\* ------------------------------------------------------------------------
\* Characters and C strings
\* ------------------------------------------------------------------------
islower(c) == c >= 97 /\ c <= 122
isupper(c) == c >= 65 /\ c <= 90

\* *(s + i - 1) for a NUL-terminated string s, i in 1..Len(s)+1.
At(s, i) == IF i <= Len(s) THEN s[i] ELSE NUL

\* ------------------------------------------------------------------------
\* Connector strings of the model
\* ------------------------------------------------------------------------
RECURSIVE SeqsUpTo(_, _)
\* The sequences over S of length at most n.
SeqsUpTo(S, n) ==
  IF n = 0 THEN { << >> }
  ELSE LET T == SeqsUpTo(S, n - 1)
       IN  T \cup { Append(t, c) : t \in T, c \in S }

\* "" | "h" | "d"
Markers == { << >>, << 104 >>, << 100 >> }
\* cores of one or more letters over {A, B}
Cores == SeqsUpTo({65, 66}, MaxCore) \ { << >> }
\* suffixes over {x, y, *}
Suffixes == SeqsUpTo({120, 121, 42}, MaxSuf)

\* "AB", "ABx", "ABy", "AB*", "hAB", "dAB"
ExampleStrings ==
  { <<65, 66>>, <<65, 66, 120>>, <<65, 66, 121>>, <<65, 66, 42>>,
    <<104, 65, 66>>, <<100, 65, 66>> }

\* "Ss", "Sp", "O*", "Ox"
ScenarioStrings == { <<83, 115>>, <<83, 112>>, <<79, 42>>, <<79, 120>> }

\* "A" followed by ten "x": one letter more than lc_enc_t holds
LongLcString == << 65, 120, 120, 120, 120, 120, 120, 120, 120, 120, 120 >>

\* Strings without an uppercase core: "", "h", "hx", "*A"; and LongLcString
MalformedStrings ==
  { << >>, << 104 >>, << 104, 120 >>, << 42, 65 >>, LongLcString }

ConStrings ==
  { m \o c \o x : m \in Markers, c \in Cores, x \in Suffixes }
    \cup ExampleStrings \cup ScenarioStrings \cup MalformedStrings

\* "AB", "ABx", "AB*", "hAB", "dAB", "A", "Ss", "h"
AddStrings ==
  { <<65, 66>>, <<65, 66, 120>>, <<65, 66, 42>>, <<104, 65, 66>>,
    <<100, 65, 66>>, <<65>>, <<83, 115>>, <<104>> } \cup { LongLcString }

\* ------------------------------------------------------------------------
\* 32-bit unsigned arithmetic on <<hi, lo>> pairs
\* ------------------------------------------------------------------------
HALF == 2 ^ 16

RECURSIVE BitXor(_, _, _)
BitXor(x, y, n) ==
  IF n = 0 THEN 0
  ELSE (((x % 2) + (y % 2)) % 2) + 2 * BitXor(x \div 2, y \div 2, n - 1)

W32Add(a, b) ==
  << (a[1] + b[1] + ((a[2] + b[2]) \div HALF)) % HALF, (a[2] + b[2]) % HALF >>

\* a << n, 0 < n < 16
W32Shl(a, n) ==
  << ((a[1] * (2 ^ n)) + (a[2] \div (2 ^ (16 - n)))) % HALF,
     (a[2] * (2 ^ n)) % HALF >>

\* a >> n, 0 < n < 16
W32Shr(a, n) ==
  << a[1] \div (2 ^ n),
     (a[2] \div (2 ^ n)) + ((a[1] % (2 ^ n)) * (2 ^ (16 - n))) >>

W32Xor(a, b) == << BitXor(a[1], b[1], 16), BitXor(a[2], b[2], 16) >>

\* ------------------------------------------------------------------------
\* connector_str_hash: Jenkins one-at-a-time hash (USE_JENKINS)
\* ------------------------------------------------------------------------
\* i += (i << n)
AddShl(i, n) == W32Add(i, W32Shl(i, n))

\* i ^= (i >> n)
XorShr(i, n) == W32Xor(i, W32Shr(i, n))

RECURSIVE JenkinsLoop(_, _, _)
\* while (*s) from position p.  The first test only makes the value of the
\* unsigned i known before the loop goes on; it never succeeds.
JenkinsLoop(s, p, i) ==
  IF i[1] < 0 THEN i
  ELSE IF At(s, p) = NUL THEN i
  ELSE JenkinsLoop(s, p + 1,
                   XorShr(AddShl(W32Add(i, << 0, At(s, p) >>), 10), 6))

\* The hash of the text of connector_str_hash.
JenkinsHash(s) ==
  AddShl(XorShr(AddShl(JenkinsLoop(s, 1, << 0, 0 >>), 3), 11), 15)

\* connector_str_hash, its values for the model's strings computed once.
HashMemo == [s \in ConStrings \cup AddStrings |-> JenkinsHash(s)]

connector_str_hash(s) == HashMemo[s]

\* hash & (size - 1) for an int hash converted to size_t and a power-of-two
\* size: the low log2(size) bits of the word.
HashIndex(hash, size) ==
  IF size <= HALF THEN hash[2] % size
  ELSE ((hash[1] % (size \div HALF)) * HALF) + hash[2]

\* The value kept in a connector_hash_size field: the low 16 bits.
ToHashSize(hash) == << 0, hash[2] % (2 ^ HASH_SIZE_BITS) >>

\* ------------------------------------------------------------------------
\* easy_match
\* ------------------------------------------------------------------------
RECURSIVE UcLoopAnd(_, _, _, _)
\* UcLoop with "&&" for "||": stops as soon as one side leaves its core.
UcLoopAnd(s, t, ps, pt) ==
  IF isupper(At(s, ps)) /\ isupper(At(t, pt))
  THEN IF At(s, ps) # At(t, pt) THEN << 0, 0 >>
       ELSE UcLoopAnd(s, t, ps + 1, pt + 1)
  ELSE << ps, pt >>

RECURSIVE UcLoop(_, _, _, _)
\* while (isupper(*s) || isupper(*t)); yields the positions reached, or
\* <<0, 0>> on "return false".
UcLoop(s, t, ps, pt) ==
  IF isupper(At(s, ps)) \/ isupper(At(t, pt))
  THEN IF At(s, ps) # At(t, pt) THEN << 0, 0 >>
       ELSE UcLoop(s, t, ps + 1, pt + 1)
  ELSE << ps, pt >>

RECURSIVE LcLoopWildS(_, _, _, _)
\* LcLoop taking the wildcard on the s side only.
LcLoopWildS(s, t, ps, pt) ==
  IF At(s, ps) # NUL /\ At(t, pt) # NUL
  THEN IF At(s, ps) = 42 \/ At(s, ps) = At(t, pt)
       THEN LcLoopWildS(s, t, ps + 1, pt + 1)
       ELSE FALSE
  ELSE TRUE

RECURSIVE LcLoop(_, _, _, _)
\* while ((*s != '\0') && (*t != '\0'))
LcLoop(s, t, ps, pt) ==
  IF At(s, ps) # NUL /\ At(t, pt) # NUL
  THEN IF At(s, ps) = 42 \/ At(t, pt) = 42 \/ At(s, ps) = At(t, pt)
       THEN LcLoop(s, t, ps + 1, pt + 1)
       ELSE FALSE
  ELSE TRUE

\* easy_match rejecting every pair of marked connectors.
easy_match_BothMarked(s, t) ==
  LET is == IF islower(At(s, 1)) THEN At(s, 1) ELSE 0
      it == IF islower(At(t, 1)) THEN At(t, 1) ELSE 0
      ps == IF islower(At(s, 1)) THEN 2 ELSE 1
      pt == IF islower(At(t, 1)) THEN 2 ELSE 1
  IN  IF is # 0 /\ it # 0 THEN FALSE
      ELSE LET p == UcLoop(s, t, ps, pt)
           IN  IF p = << 0, 0 >> THEN FALSE
               ELSE LcLoop(s, t, p[1], p[2])

easy_match(s, t) ==
  LET is == IF islower(At(s, 1)) THEN At(s, 1) ELSE 0
      it == IF islower(At(t, 1)) THEN At(t, 1) ELSE 0
      ps == IF islower(At(s, 1)) THEN 2 ELSE 1
      pt == IF islower(At(t, 1)) THEN 2 ELSE 1
  IN  IF is # 0 /\ it # 0 /\ is = it THEN FALSE
      ELSE LET p == UcLoop(s, t, ps, pt)
           IN  IF p = << 0, 0 >> THEN FALSE
               ELSE LcLoop(s, t, p[1], p[2])

\* ------------------------------------------------------------------------
\* condesc_t and the descriptor encoder
\* ------------------------------------------------------------------------
RECURSIVE BitAnd(_, _, _)
BitAnd(x, y, n) ==
  IF n = 0 THEN 0
  ELSE ((x % 2) * (y % 2)) + 2 * BitAnd(x \div 2, y \div 2, n - 1)

\* An lc_enc_t is kept as its MAX_LC_LETTERS fields of LC_BITS bits each,
\* field k holding bits (k-1)*LC_BITS .. k*LC_BITS-1; bit 63 is never set.
ZeroLc == [k \in 1..MAX_LC_LETTERS |-> 0]

\* malloc + memset(*h, 0, sizeof(condesc_t))
ZeroDesc ==
  [ lc_letters |-> ZeroLc, lc_mask |-> ZeroLc, string |-> << >>,
    str_hash |-> << 0, 0 >>, uc_num |-> 0, length_limit |-> 0,
    head_dependent |-> NUL, uc_length |-> 0, uc_start |-> 0 ]

RECURSIVE UcRun(_, _)
\* Length of the maximal run of uppercase letters of s starting at position p.
UcRun(s, p) == IF isupper(At(s, p)) THEN 1 + UcRun(s, p + 1) ELSE 0

\* Offset (0-based) of the uppercase core: after the optional leading
\* lowercase letter.
UcStart(s) == IF islower(At(s, 1)) THEN 1 ELSE 0

\* The text after the uppercase core.
LcPart(s) == SubSeq(s, UcStart(s) + UcRun(s, UcStart(s) + 1) + 1, Len(s))

\* The descriptor with the fields for its string s, whose part after the
\* uppercase core is lc.
EncodeFields(d, s, lc) ==
  [d EXCEPT
     !.head_dependent = IF At(s, 1) = 104 THEN 104
                        ELSE IF At(s, 1) = 100 THEN 100 ELSE NUL,
     !.uc_start = UcStart(s),
     !.uc_length = UcRun(s, UcStart(s) + 1),
     !.lc_letters = [k \in 1..MAX_LC_LETTERS |->
                       IF k <= Len(lc) THEN lc[k] % (LC_MASK + 1) ELSE 0],
     !.lc_mask = [k \in 1..MAX_LC_LETTERS |->
                    IF k <= Len(lc) /\ lc[k] # 42 THEN LC_MASK ELSE 0]]

\* The strings the encoder accepts: a core of one or more uppercase letters
\* and no more letters after it than an lc_enc_t holds.
WellFormed(s) ==
  /\ UcRun(s, UcStart(s) + 1) > 0
  /\ Len(LcPart(s)) <= MAX_LC_LETTERS

\* calculate_connector_info: yields the filled descriptor and the verdict.
calculate_connector_info(d) ==
  IF ~WellFormed(d.string) THEN [desc |-> d, ok |-> FALSE]
  ELSE [desc |-> EncodeFields(d, d.string, LcPart(d.string)), ok |-> TRUE]

\* ------------------------------------------------------------------------
\* lc_easy_match, easy_match_desc
\* ------------------------------------------------------------------------
\* lc_easy_match without the head/dependent test.
lc_easy_match_NoHeadDep(c1, c2) ==
  IF \E k \in 1..MAX_LC_LETTERS :
        BitAnd(BitAnd(BitXor(c1.lc_letters[k], c2.lc_letters[k], LC_BITS),
                      c1.lc_mask[k], LC_BITS),
               c2.lc_mask[k], LC_BITS) # 0
  THEN FALSE
  ELSE TRUE

lc_easy_match(c1, c2) ==
  IF \E k \in 1..MAX_LC_LETTERS :
        BitAnd(BitAnd(BitXor(c1.lc_letters[k], c2.lc_letters[k], LC_BITS),
                      c1.lc_mask[k], LC_BITS),
               c2.lc_mask[k], LC_BITS) # 0
  THEN FALSE
  ELSE IF NUL # c1.head_dependent /\ c1.head_dependent = c2.head_dependent
       THEN FALSE
       ELSE TRUE

easy_match_desc(c1, c2) ==
  IF c1.uc_num # c2.uc_num THEN FALSE ELSE lc_easy_match(c1, c2)

\* ------------------------------------------------------------------------
\* ConTable: hdesc is a function on 0..size-1 (empty when size = 0)
\* ------------------------------------------------------------------------
\* The value of a call that never returns.
HANG == -1

RECURSIVE ProbeNoCmp(_, _, _, _)
\* Probe without the string comparison: stops at the first empty slot only.
ProbeNoCmp(ct, constring, i, n) ==
  IF n = ct.size THEN HANG
  ELSE IF NULL # ct.hdesc[i]
       THEN ProbeNoCmp(ct, constring, (i + 1) % ct.size, n + 1)
       ELSE i

RECURSIVE ProbeSkip(_, _, _, _)
\* Probe advancing by two slots.
ProbeSkip(ct, constring, i, n) ==
  IF n = ct.size THEN HANG
  ELSE IF NULL # ct.hdesc[i] /\ constring # ct.descs[ct.hdesc[i]].string
       THEN ProbeSkip(ct, constring, (i + 2) % ct.size, n + 1)
       ELSE i

RECURSIVE Probe(_, _, _, _)
\* The while loop of condesc_find from slot i, n slots already visited.
\* The table does not change during the probe, so a probe that has visited
\* all size slots without leaving the loop repeats them forever.
Probe(ct, constring, i, n) ==
  IF n = ct.size THEN HANG
  ELSE IF NULL # ct.hdesc[i] /\ constring # ct.descs[ct.hdesc[i]].string
       THEN Probe(ct, constring, (i + 1) % ct.size, n + 1)
       ELSE i

\* The slot index whose address condesc_find returns, or HANG.
condesc_find(ct, constring, hash) ==
  Probe(ct, constring, HashIndex(hash, ct.size), 0)

\* condesc_table_alloc without the memset: the slots the old array had keep
\* their content.
condesc_table_allocNoClear(ct, size) ==
  [ct EXCEPT !.hdesc = [i \in 0..(size - 1) |->
                          IF i < ct.size THEN ct.hdesc[i] ELSE NULL],
             !.size = size]

condesc_table_alloc(ct, size) ==
  [ct EXCEPT !.hdesc = [i \in 0..(size - 1) |-> NULL], !.size = size]

\* The table with the descriptor d stored through h and counted.
StoreDesc(ct, h, d) ==
  [ct EXCEPT !.descs = Append(ct.descs, d),
             !.hdesc[h] = Len(ct.descs) + 1,
             !.num_con = ct.num_con + 1]

\* The result of condesc_insert once calculate_connector_info has answered r.
InsertResult(ct, h, r) == [ct |-> StoreDesc(ct, h, r.desc), ok |-> r.ok]

\* Yields the table after the call and the returned bool.
condesc_insert(ct, h, constring, hash) ==
  InsertResult(ct, h,
    calculate_connector_info([ZeroDesc EXCEPT !.str_hash = ToHashSize(hash),
                                              !.string = constring]))

RECURSIVE GrowLoopNoRehash(_, _, _, _)
\* GrowLoop copying each descriptor to the slot of its old index instead of
\* the slot condesc_find gives in the new table.
GrowLoopNoRehash(ct, old_hdesc, old_size, i) ==
  IF i >= old_size THEN [ct |-> ct, ret |-> "true"]
  ELSE GrowLoopNoRehash([ct EXCEPT !.hdesc[i] = old_hdesc[i]],
                        old_hdesc, old_size, i + 1)

RECURSIVE GrowLoop(_, _, _, _)

\* The body of the loop of condesc_grow for the non-NULL old_h = old_hdesc[i]
\* and the slot new_h that condesc_find gave for it.
GrowPlace(ct, old_hdesc, old_size, i, new_h) ==
  IF new_h = HANG THEN [ct |-> ct, ret |-> "hang"]
  ELSE IF NULL # ct.hdesc[new_h] THEN [ct |-> ct, ret |-> "false"]
  ELSE GrowLoop([ct EXCEPT !.hdesc[new_h] = old_hdesc[i]],
                old_hdesc, old_size, i + 1)

\* for (size_t i = 0; i < old_size; i++) of condesc_grow; ret is "true",
\* "false", or "hang" when a probe never returns.
GrowLoop(ct, old_hdesc, old_size, i) ==
  IF i >= old_size THEN [ct |-> ct, ret |-> "true"]
  ELSE IF NULL = old_hdesc[i] THEN GrowLoop(ct, old_hdesc, old_size, i + 1)
  ELSE GrowPlace(ct, old_hdesc, old_size, i,
                 condesc_find(ct, ct.descs[old_hdesc[i]].string,
                              ct.descs[old_hdesc[i]].str_hash))

condesc_grow(ct) ==
  GrowLoop(condesc_table_alloc(ct, ct.size * CONDESC_TABLE_GROW_FACTOR),
           ct.hdesc, ct.size, 0)

\* condesc_add yields the table after the call, the returned descriptor
\* (NULL, or HANG when the call never returns) and the number of
\* condesc_grow calls made.  Its steps, last first:

\* return *h, for the slot h found after the growth
AddRefound(ct, h) ==
  [ct |-> ct, ret |-> IF h = HANG THEN HANG ELSE ct.hdesc[h], grown |-> 1]

\* if (!condesc_grow(ct)) return NULL; h = condesc_find(ct, constring, hash);
AddGrown(g, constring, hash) ==
  IF g.ret = "hang" THEN [ct |-> g.ct, ret |-> HANG, grown |-> 1]
  ELSE IF g.ret = "false" THEN [ct |-> g.ct, ret |-> NULL, grown |-> 1]
  ELSE AddRefound(g.ct, condesc_find(g.ct, constring, hash))

\* if (!condesc_insert(...)) return NULL; if ((8 * num_con) > (3 * size)) ...
AddInserted(ins, h, constring, hash) ==
  IF ~ins.ok THEN [ct |-> ins.ct, ret |-> NULL, grown |-> 0]
  ELSE IF (8 * ins.ct.num_con) > (3 * ins.ct.size)
  THEN AddGrown(condesc_grow(ins.ct), constring, hash)
  ELSE [ct |-> ins.ct, ret |-> ins.ct.hdesc[h], grown |-> 0]

\* AddAt making the growth test for a string it found as well.
AddAtRegrow(ct, constring, hash, h) ==
  IF h = HANG THEN [ct |-> ct, ret |-> HANG, grown |-> 0]
  ELSE IF NULL # ct.hdesc[h]
  THEN IF (8 * ct.num_con) > (3 * ct.size)
       THEN AddGrown(condesc_grow(ct), constring, hash)
       ELSE [ct |-> ct, ret |-> ct.hdesc[h], grown |-> 0]
  ELSE AddInserted(condesc_insert(ct, h, constring, hash), h, constring, hash)

\* if (NULL == *h) ... return *h, for the slot h condesc_find gave
AddAt(ct, constring, hash, h) ==
  IF h = HANG THEN [ct |-> ct, ret |-> HANG, grown |-> 0]
  ELSE IF NULL # ct.hdesc[h] THEN [ct |-> ct, ret |-> ct.hdesc[h], grown |-> 0]
  ELSE AddInserted(condesc_insert(ct, h, constring, hash), h, constring, hash)

\* int hash = connector_str_hash(constring); h = condesc_find(...)
AddHashed(ct, constring, hash) ==
  AddAt(ct, constring, hash, condesc_find(ct, constring, hash))

\* if (0 == ct->size) { condesc_table_alloc(ct, ct->num_con); num_con = 0; }
AddAlloc(ct) ==
  IF 0 = ct.size
  THEN [condesc_table_alloc(ct, ct.num_con) EXCEPT !.num_con = 0]
  ELSE ct

condesc_add(ct, constring) ==
  AddHashed(AddAlloc(ct), constring, connector_str_hash(constring))

\* ------------------------------------------------------------------------
\* sort_condesc_by_uc_constring
\* ------------------------------------------------------------------------
\* The uppercase core of a descriptor.
CoreOf(d) == SubSeq(d.string, d.uc_start + 1, d.uc_start + d.uc_length)

RECURSIVE LexLess(_, _, _)
\* a < b lexicographically, the positions before p being equal.
LexLess(a, b, p) ==
  IF p > Len(b) THEN FALSE
  ELSE IF p > Len(a) THEN TRUE
  ELSE IF a[p] # b[p] THEN a[p] < b[p]
  ELSE LexLess(a, b, p + 1)

RECURSIVE CollectDescs(_, _)
\* The non-NULL entries of hdesc from slot i on, in slot order.
CollectDescs(ct, i) ==
  IF i >= ct.size THEN << >>
  ELSE IF NULL = ct.hdesc[i] THEN CollectDescs(ct, i + 1)
  ELSE << ct.hdesc[i] >> \o CollectDescs(ct, i + 1)

RECURSIVE InsertByCore(_, _, _)
\* sd is sorted by core; id is put before the first entry of a greater core.
InsertByCore(descs, sd, id) ==
  IF sd = << >> THEN << id >>
  ELSE IF LexLess(CoreOf(descs[id]), CoreOf(descs[Head(sd)]), 1)
       THEN << id >> \o sd
       ELSE << Head(sd) >> \o InsertByCore(descs, Tail(sd), id)

RECURSIVE SortByCore(_, _)
SortByCore(descs, ids) ==
  IF ids = << >> THEN << >>
  ELSE InsertByCore(descs, SortByCore(descs, Tail(ids)), Head(ids))

RECURSIVE NumberCoresEach(_, _, _, _)
\* NumberCores giving every entry of sdesc a new id.
NumberCoresEach(descs, sd, n, uc_num) ==
  IF n > Len(sd) THEN descs
  ELSE NumberCoresEach([descs EXCEPT ![sd[n]].uc_num = n - 1], sd, n + 1,
                       n - 1)

RECURSIVE NumberCores(_, _, _, _)
\* Walks sdesc from position n; uc_num is the id given to position n - 1.
NumberCores(descs, sd, n, uc_num) ==
  IF n > Len(sd) THEN descs
  ELSE LET num == IF n = 1 THEN 0
                  ELSE IF CoreOf(descs[sd[n]]) # CoreOf(descs[sd[n - 1]])
                       THEN uc_num + 1
                       ELSE uc_num
       IN  NumberCores([descs EXCEPT ![sd[n]].uc_num = num], sd, n + 1, num)

\* The table with its sorted array sd and the numbered descriptors.
SortedTable(ct, sd, descs) ==
  [ct EXCEPT !.sdesc = sd,
             !.descs = descs,
             !.num_uc = IF sd = << >> THEN 0
                        ELSE descs[sd[Len(sd)]].uc_num + 1]

\* The numbering walk over the sorted array sd.
NumberTable(ct, sd) == SortedTable(ct, sd, NumberCores(ct.descs, sd, 1, 0))

sort_condesc_by_uc_constring(ct) ==
  NumberTable(ct, SortByCore(ct.descs, CollectDescs(ct, 0)))

\* ------------------------------------------------------------------------
\* connector_new
\* ------------------------------------------------------------------------
\* set_connector_length_limit: the instance's limit for a descriptor limit
\* and the run's short_length and all_short.
\* set_connector_length_limit ignoring all_short.
set_connector_length_limit_NoClip(length_limit, short_length, all_short) ==
  IF 0 = length_limit THEN short_length ELSE length_limit

set_connector_length_limit(length_limit, short_length, all_short) ==
  IF 0 = length_limit THEN short_length
  ELSE IF all_short /\ length_limit > short_length THEN short_length
  ELSE length_limit

connector_new(desc, opts) ==
  [ length_limit |-> set_connector_length_limit(desc.length_limit,
                                                opts.short_length,
                                                opts.all_short),
    nearest_word |-> 0, multi |-> FALSE, desc |-> desc, next |-> NULL ]

\* ------------------------------------------------------------------------
\* Length-limit definitions of the dictionary
\* ------------------------------------------------------------------------
\* A length_limit_def_t: the connector pattern and its limit.  The queue
\* ct.length_limit_def is the list from its head to length_limit_def_next.
LengthLimitDef(defword, length_limit) ==
  [defword |-> defword, length_limit |-> length_limit]

\* The rule l is appended at *length_limit_def_next.
length_limit_def_add(ct, l) ==
  [ct EXCEPT !.length_limit_def = Append(ct.length_limit_def, l)]

\* The descriptor d is one the rule l speaks about.
RuleMatches(l, d) == easy_match(l.defword, d.string)

\* The descriptors after the rule l has been applied to them.
ApplyRule(descs, l) ==
  [i \in DOMAIN descs |->
     IF RuleMatches(l, descs[i])
     THEN [descs[i] EXCEPT !.length_limit = l.length_limit]
     ELSE descs[i]]

RECURSIVE ApplyRulesFirstWins(_, _, _)
\* ApplyRules walking the queue from its tail to its head.
ApplyRulesFirstWins(descs, defs, n) ==
  IF n > Len(defs) THEN descs
  ELSE ApplyRule(ApplyRulesFirstWins(descs, defs, n + 1), defs[n])

RECURSIVE ApplyRules(_, _, _)
\* for (l = ct->length_limit_def; NULL != l; l = l->next), from the n-th on
ApplyRules(descs, defs, n) ==
  IF n > Len(defs) THEN descs
  ELSE ApplyRules(ApplyRule(descs, defs[n]), defs, n + 1)

set_all_condesc_length_limit(ct) ==
  [ct EXCEPT !.descs = ApplyRules(ct.descs, ct.length_limit_def, 1)]

Hints == { 2 ^ k : k \in 0..MaxHintLog }

\* ------------------------------------------------------------------------
\* State
\* ------------------------------------------------------------------------
VARIABLES
  ct,      \* the ConTable, with the descriptors it points to in ct.descs
  sorted,  \* sort_condesc_by_uc_constring has run
  calls,   \* number of condesc_add calls made
  arg,     \* argument of the last condesc_add call
  ret,     \* its return value: a descriptor, NULL, or HANG
  grows,   \* number of condesc_grow calls made
  first,   \* for each string passed to condesc_add: the value the first
           \* call returned and the value of grows after that call
  ms, mt,  \* the two connector strings handed to the match functions
  mres,    \* their results: << easy_match >>, then
           \* << easy_match, easy_match_desc >>
  conn,    \* the Connectors made by connector_new
  opts,    \* the Parse_Options of the run
  limited, \* set_all_condesc_length_limit has run
  walk,    \* an easy_match(ms, mt) call in progress: its locals and result
  home     \* a string, a capacity and the slots its two hashes select

vars == << ct, sorted, calls, arg, ret, grows, first, ms, mt, mres, conn, opts,
          limited, walk, home >>

tableVars == << ct, sorted, calls, arg, ret, grows, first >>
matchVars == << ms, mt, mres >>
connVars  == << conn, opts >>
restVars  == << limited, walk, home >>

EmptyTable(hint) ==
  [ hdesc |-> [i \in {} |-> NULL], sdesc |-> << >>, size |-> 0,
    num_con |-> hint, num_uc |-> 0, descs |-> << >>,
    length_limit_def |-> << >> ]

NoOpts == [short_length |-> 0, all_short |-> FALSE]

NoMatch == /\ ms = << >> /\ mt = << >> /\ mres = << >>
NoConn  == /\ conn = << >> /\ opts = NoOpts

NoWalk == [pc |-> "idle"]
NoHome == [size |-> 0]
NoRest == /\ limited = FALSE /\ walk = NoWalk /\ home = NoHome

\* ------------------------------------------------------------------------
\* The dictionary's table: condesc_add calls, then the sort
\* ------------------------------------------------------------------------
Init ==
  /\ \E hint \in Hints : ct = EmptyTable(hint)
  /\ sorted = FALSE
  /\ calls = 0
  /\ arg = << >>
  /\ ret = NULL
  /\ grows = 0
  /\ first = [s \in {} |-> 0]
  /\ NoMatch
  /\ NoConn
  /\ NoRest

\* The state after a condesc_add(ct, s) call with the result r.
AddReturns(s, r) ==
  /\ ct' = r.ct
  /\ ret' = r.ret
  /\ grows' = grows + r.grown
  /\ first' = IF s \in DOMAIN first THEN first
              ELSE [t \in DOMAIN first \cup {s} |->
                      IF t = s THEN [ret |-> r.ret, grows |-> grows + r.grown]
                      ELSE first[t]]
  /\ arg' = s
  /\ calls' = calls + 1
  /\ UNCHANGED << sorted, matchVars, connVars, restVars >>

\* A condesc_add(ct, s) call.  No call follows one that never returns, and
\* none is made once the table is sorted.
Add(s) ==
  /\ calls < MaxCalls
  /\ ret # HANG
  /\ ~sorted
  /\ AddReturns(s, condesc_add(ct, s))

\* Some condesc_add call returned NULL: the dictionary load is aborted.
Aborted == \E s \in DOMAIN first : first[s].ret = NULL

\* The sort_condesc_by_uc_constring(dict) call that ends the load.
Sort ==
  /\ calls > 0
  /\ ret # HANG
  /\ ~Aborted
  /\ ~sorted
  /\ ct' = sort_condesc_by_uc_constring(ct)
  /\ sorted' = TRUE
  /\ UNCHANGED << calls, arg, ret, grows, first, matchVars, connVars, restVars >>

Next ==
  \/ \E s \in AddStrings : Add(s)
  \/ Sort

Spec == Init /\ [][Next]_vars

\* ------------------------------------------------------------------------
\* Properties of the descriptor table
\* ------------------------------------------------------------------------
\* The slots of the hashed table.
Slots == 0..(ct.size - 1)

\* The string of the descriptor in an occupied slot.
SlotString(i) == ct.descs[ct.hdesc[i]].string

\* C1: interning is idempotent: every condesc_add call for a string returns
\* the descriptor reference that the first call for that string returned.
C1_Idempotent ==
  calls > 0 => ret = first[arg].ret

C4_RejectedNotCreated ==
  [][ ( /\ calls' = calls + 1
        /\ ret' # HANG
        /\ ~WellFormed(arg') )
      => ( /\ ret' = NULL
           /\ ct'.num_con = (IF ct.size = 0 THEN 0 ELSE ct.num_con)
           /\ \A i \in 0..(ct'.size - 1) :
                ct'.hdesc[i] # NULL
                  => ct'.descs[ct'.hdesc[i]].string # arg' ) ]_vars

\* The capacity a condesc_add call works with: the size of the table, or the
\* hint it allocates on the first call.
Capacity(t) == IF 0 = t.size THEN t.num_con ELSE t.size

\* The number of descriptors counted before a condesc_add call.
Counted(t) == IF 0 = t.size THEN 0 ELSE t.num_con

\* C12: a condesc_add call that creates a descriptor doubles the capacity,
\* by one condesc_grow call, if after the insertion 8 * num_con > 3 * size,
\* and leaves it unchanged otherwise; a call that creates none leaves it
\* unchanged; so every call multiplies the capacity by 1 or by 2.
C12_GrowthTrigger ==
  [][ calls' = calls + 1
      => /\ ct'.size \in { Capacity(ct), 2 * Capacity(ct) }
         /\ ct'.num_con > Counted(ct)
              => IF 8 * ct'.num_con > 3 * Capacity(ct)
                 THEN ct'.size = 2 * Capacity(ct) /\ grows' = grows + 1
                 ELSE ct'.size = Capacity(ct) /\ grows' = grows
         /\ ct'.num_con = Counted(ct)
              => ct'.size = Capacity(ct) /\ grows' = grows ]_vars

\* C13: in every state in which a condesc_add call has returned, the count
\* of descriptors does not exceed the capacity and, moreover, is below it, so
\* that at least one slot of the hashed table is empty.
C13_OccupancyBelowCapacity ==
  (calls > 0 /\ ret # HANG)
    => /\ ct.num_con <= ct.size
       /\ ct.num_con < ct.size
       /\ \E i \in Slots : ct.hdesc[i] = NULL

\* C14: every linear probe of condesc_find, in condesc_add and in
\* condesc_grow, leaves its loop at an empty slot or at the slot of the
\* searched string after visiting at most size slots: no condesc_add call
\* fails to return.
C14_ProbeTerminates ==
  ret # HANG

C17_LoadFactor ==
  (calls > 0 /\ ret # HANG) => 8 * ct.num_con <= 3 * ct.size

\* The slot at which a lookup of the string of slot j starts.
HomeSlot(j) == HashIndex(connector_str_hash(SlotString(j)), ct.size)

InitMatch ==
  /\ ms \in ConStrings
  /\ mt \in ConStrings
  /\ mres = << >>
  /\ ct = EmptyTable((2 ^ MaxHintLog))
  /\ sorted = FALSE
  /\ calls = 0
  /\ arg = << >>
  /\ ret = NULL
  /\ grows = 0
  /\ first = [s \in {} |-> 0]
  /\ NoConn
  /\ NoRest

\* easy_match(ms, mt)
MatchStr ==
  /\ mres = << >>
  /\ mres' = << easy_match(ms, mt) >>
  /\ UNCHANGED << ms, mt, tableVars, connVars, restVars >>

\* The dictionary interns ms, then mt.
MatchAdd ==
  /\ Len(mres) = 1
  /\ calls < 2
  /\ ~Aborted
  /\ Add(IF calls = 0 THEN ms ELSE mt)

MatchSort ==
  /\ calls = 2
  /\ Sort

\* easy_match_desc on the descriptors of ms and mt
MatchDesc ==
  /\ sorted
  /\ Len(mres) = 1
  /\ mres' = Append(mres, easy_match_desc(ct.descs[first[ms].ret],
                                          ct.descs[first[mt].ret]))
  /\ UNCHANGED << ms, mt, tableVars, connVars, restVars >>

NextMatch ==
  \/ MatchStr
  \/ MatchAdd
  \/ MatchSort
  \/ MatchDesc

SpecMatch == InitMatch /\ [][NextMatch]_vars

\* ------------------------------------------------------------------------
\* Making a connector for a descriptor with a given length_limit
\* ------------------------------------------------------------------------
LimitValues == 0..MaxLimit \cup { UNLIMITED_LEN }

\* The table holds the descriptor of "AB", its length_limit set by the
\* dictionary; the run has its short_length and all_short.
InitConn ==
  /\ \E L \in LimitValues :
       ct = [condesc_add(EmptyTable(2 ^ MaxHintLog), << 65, 66 >>).ct
               EXCEPT !.descs[1].length_limit = L]
  /\ \E S \in LimitValues : \E A \in BOOLEAN :
       opts = [short_length |-> S, all_short |-> A]
  /\ conn = << >>
  /\ sorted = FALSE
  /\ calls = 1
  /\ arg = << 65, 66 >>
  /\ ret = 1
  /\ grows = 0
  /\ first = [s \in { << 65, 66 >> } |-> [ret |-> 1, grows |-> 0]]
  /\ NoMatch
  /\ NoRest

\* connector_new(desc, opts) for the descriptor in slot h
ConnectorNew ==
  /\ conn = << >>
  /\ \E h \in Slots :
       /\ ct.hdesc[h] # NULL
       /\ conn' = << [connector_new(ct.descs[ct.hdesc[h]], opts)
                        EXCEPT !.desc = ct.hdesc[h]] >>
  /\ UNCHANGED << opts, tableVars, matchVars, restVars >>

NextConn == ConnectorNew

SpecConn == InitConn /\ [][NextConn]_vars

\* ------------------------------------------------------------------------
\* Properties of matching, core ids and connector instances
\* ------------------------------------------------------------------------
\* The parts of a connector string, read off the string itself.
MarkerOf(s) == IF islower(At(s, 1)) THEN At(s, 1) ELSE NUL
TrueCore(s) == SubSeq(s, UcStart(s) + 1, UcStart(s) + UcRun(s, UcStart(s) + 1))
SuffixOf(s) == LcPart(s)

MinOf(a, b) == IF a < b THEN a ELSE b

\* At every position both suffixes have, the characters are equal or one of
\* them is '*'.
SuffixCompatible(x, y) ==
  \A k \in 1..MinOf(Len(x), Len(y)) : x[k] = y[k] \/ x[k] = 42 \/ y[k] = 42

MatchStrDone == Len(mres) >= 1
MatchDescDone == Len(mres) = 2

C6_Symmetric ==
  /\ MatchStrDone => mres[1] = easy_match(mt, ms)
  /\ MatchDescDone =>
       mres[2] = easy_match_desc(ct.descs[first[mt].ret],
                                 ct.descs[first[ms].ret])

\* Both forms have answered for a wildcard suffix against a letter suffix.
C6_Witness ==
  /\ MatchDescDone
  /\ ms = << 65, 66, 42 >>
  /\ mt = << 65, 66, 120 >>
  /\ mres = << TRUE, TRUE >>

\* C7: after the sort, two descriptors of the table have the same uc_num
\* exactly when their uppercase cores are the same text; sdesc is ordered by
\* core and the ids grow along it from 0, by one where the core changes.
C7_CoreIdPartition ==
  sorted =>
    /\ \A a \in 1..Len(ct.descs) : \A b \in 1..Len(ct.descs) :
         (ct.descs[a].uc_num = ct.descs[b].uc_num)
           <=> (TrueCore(ct.descs[a].string) = TrueCore(ct.descs[b].string))
    /\ { ct.sdesc[n] : n \in 1..Len(ct.sdesc) }
         = { ct.hdesc[i] : i \in Slots } \ { NULL }
    /\ Len(ct.sdesc) = ct.num_con
    /\ ct.sdesc # << >> => ct.descs[ct.sdesc[1]].uc_num = 0
    /\ \A n \in 2..Len(ct.sdesc) :
         LET p == ct.descs[ct.sdesc[n - 1]]
             d == ct.descs[ct.sdesc[n]]
         IN  /\ ~LexLess(TrueCore(d.string), TrueCore(p.string), 1)
             /\ d.uc_num = p.uc_num
                  + (IF TrueCore(d.string) # TrueCore(p.string) THEN 1 ELSE 0)

\* A sorted table of four descriptors over two or more cores, two of them
\* sharing a core.
C7_Witness ==
  /\ sorted
  /\ Len(ct.sdesc) = 4
  /\ ct.num_uc >= 2
  /\ ct.num_uc < 4

\* C8: for well-formed connectors with the same uppercase core and
\* compatible suffixes, the pair fails to match exactly when both have a
\* leading lowercase marker and the markers are equal, in easy_match and in
\* lc_easy_match; "hAB"/"dAB" match, "hAB"/"hAB" do not, "AB" matches both.
C8_HeadDependent ==
  /\ ( /\ MatchStrDone
       /\ WellFormed(ms) /\ WellFormed(mt)
       /\ TrueCore(ms) = TrueCore(mt)
       /\ SuffixCompatible(SuffixOf(ms), SuffixOf(mt)) )
     => /\ mres[1] = ~(MarkerOf(ms) # NUL /\ MarkerOf(ms) = MarkerOf(mt))
        /\ MatchDescDone =>
             lc_easy_match(ct.descs[first[ms].ret], ct.descs[first[mt].ret])
               = ~(MarkerOf(ms) # NUL /\ MarkerOf(ms) = MarkerOf(mt))
  /\ (MatchStrDone /\ ms = <<104, 65, 66>> /\ mt = <<100, 65, 66>>)
       => mres[1] = TRUE
  /\ (MatchStrDone /\ ms = <<104, 65, 66>> /\ mt = <<104, 65, 66>>)
       => mres[1] = FALSE
  /\ (MatchStrDone /\ ms = <<65, 66>>
        /\ mt \in { <<104, 65, 66>>, <<100, 65, 66>> })
       => mres[1] = TRUE

\* "hAB" against "dAB", answered by both forms.
C8_Witness ==
  /\ MatchDescDone
  /\ ms = << 104, 65, 66 >>
  /\ mt = << 100, 65, 66 >>
  /\ mres = << TRUE, TRUE >>

\* C9: two unmarked well-formed connectors with the same core match exactly
\* when their suffixes agree, up to '*', at every position both have;
\* connectors with different cores never match; "AB"/"ABx" and "ABx"/"AB*"
\* match, "ABx"/"ABy" and "Ss"/"Sp" and "Ss"/"O*" do not, "O*"/"Ox" do.
C9_SuffixAndCore ==
  MatchStrDone =>
    /\ ( /\ WellFormed(ms) /\ WellFormed(mt)
         /\ MarkerOf(ms) = NUL /\ MarkerOf(mt) = NUL
         /\ TrueCore(ms) = TrueCore(mt) )
       => mres[1] = SuffixCompatible(SuffixOf(ms), SuffixOf(mt))
    /\ TrueCore(ms) # TrueCore(mt) => mres[1] = FALSE
    /\ (ms = <<65, 66>> /\ mt = <<65, 66, 120>>) => mres[1] = TRUE
    /\ (ms = <<65, 66, 120>> /\ mt = <<65, 66, 42>>) => mres[1] = TRUE
    /\ (ms = <<65, 66, 120>> /\ mt = <<65, 66, 121>>) => mres[1] = FALSE
    /\ (ms = <<83, 115>> /\ mt = <<83, 112>>) => mres[1] = FALSE
    /\ (ms = <<83, 115>> /\ mt = <<79, 42>>) => mres[1] = FALSE
    /\ (ms = <<79, 42>> /\ mt = <<79, 120>>) => mres[1] = TRUE

\* A core that is a proper prefix of the other's core has been refused.
C9_Witness ==
  /\ MatchStrDone
  /\ ms = << 65 >>
  /\ mt = << 65, 66 >>
  /\ mres[1] = FALSE

\* C10: connector_new gives the instance the limit short_length when the
\* descriptor's length_limit is 0, the smaller of the two when it is not 0
\* and all_short is set, and the descriptor's length_limit otherwise; the
\* descriptor is left as it was.
C10_EffectiveLimit ==
  [][ conn' # conn =>
        LET c == conn'[Len(conn')]
            L == ct.descs[c.desc].length_limit
            S == opts.short_length
        IN  /\ c.length_limit =
                 (IF L = 0 THEN S
                  ELSE IF opts.all_short THEN MinOf(L, S)
                  ELSE L)
            /\ ct' = ct ]_vars

\* An instance whose limit was clipped below the descriptor's own.
C10_Witness ==
  /\ conn # << >>
  /\ opts.all_short
  /\ ct.descs[conn[1].desc].length_limit > opts.short_length
  /\ opts.short_length > 0
  /\ conn[1].length_limit = opts.short_length


\* ------------------------------------------------------------------------
\* Length limits: the dictionary declares its connectors and its
\* length-limit rules, sorts the table, then applies the rules
\* ------------------------------------------------------------------------
\* "A", "ABx", "ABy", "AB": the connectors of the dictionary
LimitDict == << << 65 >>, << 65, 66, 120 >>, << 65, 66, 121 >>, << 65, 66 >> >>

\* "A", "AB", "ABx": the connectors the rules name
LimitPatterns == { << 65 >>, << 65, 66 >>, << 65, 66, 120 >> }

RuleLimits == 1..MaxLimit \cup { UNLIMITED_LEN }

InitLimit ==
  /\ ct = EmptyTable(2 ^ MaxHintLog)
  /\ sorted = FALSE
  /\ calls = 0
  /\ arg = << >>
  /\ ret = NULL
  /\ grows = 0
  /\ first = [s \in {} |-> 0]
  /\ NoMatch
  /\ NoConn
  /\ NoRest

\* The dictionary interns its next connector.
LimitLoad ==
  /\ calls < Len(LimitDict)
  /\ Add(LimitDict[calls + 1])

LimitSort ==
  /\ calls = Len(LimitDict)
  /\ Sort

\* The dictionary declares the rule (defword, length_limit).
DefRule(defword, length_limit) ==
  /\ ~limited
  /\ Len(ct.length_limit_def) < MaxRules
  /\ ct' = length_limit_def_add(ct, LengthLimitDef(defword, length_limit))
  /\ UNCHANGED << sorted, calls, arg, ret, grows, first, matchVars, connVars,
                  restVars >>

\* The set_all_condesc_length_limit(dict) call, made once after the sort.
SetAll ==
  /\ sorted
  /\ ~limited
  /\ ct' = set_all_condesc_length_limit(ct)
  /\ limited' = TRUE
  /\ UNCHANGED << sorted, calls, arg, ret, grows, first, matchVars, connVars,
                  walk, home >>

NextLimit ==
  \/ LimitLoad
  \/ LimitSort
  \/ \E p \in LimitPatterns : \E n \in RuleLimits : DefRule(p, n)
  \/ SetAll

SpecLimit == InitLimit /\ [][NextLimit]_vars

\* The positions in the queue of the rules that match the descriptor d.
MatchingRules(defs, d) == { n \in 1..Len(defs) : RuleMatches(defs[n], d) }

MaxOf(S) == CHOOSE n \in S : \A m \in S : m <= n

\* C11: the rule queue keeps the order of declaration (a declaration appends
\* one rule and leaves the earlier ones in place), and applying the queue
\* gives every descriptor the limit of the last rule in the queue that
\* matches it, or leaves its length_limit as it was when no rule matches.
C11_LastRuleWins ==
  [][ /\ ( ct'.length_limit_def # ct.length_limit_def
           => /\ Len(ct'.length_limit_def) = Len(ct.length_limit_def) + 1
              /\ SubSeq(ct'.length_limit_def, 1, Len(ct.length_limit_def))
                   = ct.length_limit_def )
      /\ ( (limited' /\ ~limited)
           => \A i \in DOMAIN ct.descs :
                ct'.descs[i].length_limit =
                  IF MatchingRules(ct.length_limit_def, ct.descs[i]) = {}
                  THEN ct.descs[i].length_limit
                  ELSE ct.length_limit_def[
                         MaxOf(MatchingRules(ct.length_limit_def,
                                             ct.descs[i]))].length_limit ) ]_vars

\* The rules [("ABx", 4), ("AB", 6)] were applied: "ABx", matched by both,
\* has the limit 6, and "A", matched by neither, still has the limit 0.
C11_Witness ==
  /\ limited
  /\ ct.length_limit_def = << LengthLimitDef(<< 65, 66, 120 >>, 4),
                              LengthLimitDef(<< 65, 66 >>, 6) >>
  /\ ct.descs[first[<< 65, 66, 120 >>].ret].length_limit = 6
  /\ ct.descs[first[<< 65 >>].ret].length_limit = 0


\* ------------------------------------------------------------------------
\* The home slot of a descriptor: by the hash condesc_insert stored in it,
\* as condesc_grow looks it up, and by the hash of its string, as
\* condesc_add looks it up
\* ------------------------------------------------------------------------
\* A string and a capacity that a table reaches from a power-of-two hint.
InitHome ==
  /\ \E s \in ConStrings : \E k \in 0..MaxSizeLog :
       home = [string |-> s, size |-> 2 ^ k, slots |-> << >>]
  /\ ct = EmptyTable(1)
  /\ sorted = FALSE
  /\ calls = 0
  /\ arg = << >>
  /\ ret = NULL
  /\ grows = 0
  /\ first = [s \in {} |-> 0]
  /\ NoMatch
  /\ NoConn
  /\ limited = FALSE
  /\ walk = NoWalk

\* size_t i = hash & (ct->size-1) of condesc_find, for the str_hash that
\* condesc_insert stores and for the hash condesc_add computes.
HomeSlots ==
  /\ home.slots = << >>
  /\ home' = [home EXCEPT !.slots =
                << HashIndex(ToHashSize(connector_str_hash(home.string)),
                             home.size),
                   HashIndex(connector_str_hash(home.string), home.size) >>]
  /\ UNCHANGED << tableVars, matchVars, connVars, limited, walk >>

NextHome == HomeSlots

SpecHome == InitHome /\ [][NextHome]_vars

\* C18: the hash kept in a descriptor selects the same home slot as the
\* full-width hash of its string, at every capacity.
C18_StoredHashConsistent ==
  home.slots # << >> => home.slots[1] = home.slots[2]


\* ------------------------------------------------------------------------
\* easy_match(ms, mt) statement by statement.  walk.ps and walk.pt are the
\* positions of the pointers s and t (1 is the first character, Len + 1 the
\* terminating NUL), walk.is and walk.it the locals "is" and "it", walk.res
\* the returned value once walk.pc is "done".
\* ------------------------------------------------------------------------
\* return r
WalkReturn(w, r) == [w EXCEPT !.pc = "done", !.res = r]

\* if (islower(*s)) { is = *s; s++; }  if (islower(*t)) { it = *t; t++; }
WalkMarkersStep(s, t, w) ==
  [w EXCEPT !.pc = "test",
            !.is = IF islower(At(s, w.ps)) THEN At(s, w.ps) ELSE 0,
            !.ps = IF islower(At(s, w.ps)) THEN w.ps + 1 ELSE w.ps,
            !.it = IF islower(At(t, w.pt)) THEN At(t, w.pt) ELSE 0,
            !.pt = IF islower(At(t, w.pt)) THEN w.pt + 1 ELSE w.pt]

\* if (is != 0 && it != 0 && is == it) return false;
WalkTestStep(w) ==
  IF w.is # 0 /\ w.it # 0 /\ w.is = w.it
  THEN WalkReturn(w, FALSE)
  ELSE [w EXCEPT !.pc = "uc"]

\* One test of while (isupper(*s) || isupper(*t)) and, if it holds, its body.
WalkUcStep(s, t, w) ==
  IF isupper(At(s, w.ps)) \/ isupper(At(t, w.pt))
  THEN IF At(s, w.ps) # At(t, w.pt)
       THEN WalkReturn(w, FALSE)
       ELSE [w EXCEPT !.ps = w.ps + 1, !.pt = w.pt + 1]
  ELSE [w EXCEPT !.pc = "lc"]

\* WalkLcStep with "||" for "&&" in the loop test.
WalkLcStepOr(s, t, w) ==
  IF At(s, w.ps) # NUL \/ At(t, w.pt) # NUL
  THEN IF At(s, w.ps) = 42 \/ At(t, w.pt) = 42 \/ At(s, w.ps) = At(t, w.pt)
       THEN [w EXCEPT !.ps = w.ps + 1, !.pt = w.pt + 1]
       ELSE WalkReturn(w, FALSE)
  ELSE WalkReturn(w, TRUE)

\* One test of while ((*s!='\0') && (*t!='\0')) and, if it holds, its body;
\* return true when it does not.
WalkLcStep(s, t, w) ==
  IF At(s, w.ps) # NUL /\ At(t, w.pt) # NUL
  THEN IF At(s, w.ps) = 42 \/ At(t, w.pt) = 42 \/ At(s, w.ps) = At(t, w.pt)
       THEN [w EXCEPT !.ps = w.ps + 1, !.pt = w.pt + 1]
       ELSE WalkReturn(w, FALSE)
  ELSE WalkReturn(w, TRUE)

\* The call easy_match(ms, mt) is entered.
InitWalk ==
  /\ ms \in ConStrings
  /\ mt \in ConStrings
  /\ mres = << >>
  /\ walk = [pc |-> "markers", ps |-> 1, pt |-> 1, is |-> 0, it |-> 0,
             res |-> FALSE]
  /\ ct = EmptyTable(1)
  /\ sorted = FALSE
  /\ calls = 0
  /\ arg = << >>
  /\ ret = NULL
  /\ grows = 0
  /\ first = [s \in {} |-> 0]
  /\ NoConn
  /\ limited = FALSE
  /\ home = NoHome

WalkFrame == UNCHANGED << tableVars, matchVars, connVars, limited, home >>

WalkMarkers ==
  /\ walk.pc = "markers"
  /\ walk' = WalkMarkersStep(ms, mt, walk)
  /\ WalkFrame

WalkTest ==
  /\ walk.pc = "test"
  /\ walk' = WalkTestStep(walk)
  /\ WalkFrame

WalkUc ==
  /\ walk.pc = "uc"
  /\ walk' = WalkUcStep(ms, mt, walk)
  /\ WalkFrame

WalkLc ==
  /\ walk.pc = "lc"
  /\ walk' = WalkLcStep(ms, mt, walk)
  /\ WalkFrame

NextWalk ==
  \/ WalkMarkers
  \/ WalkTest
  \/ WalkUc
  \/ WalkLc

SpecWalk == InitWalk /\ [][NextWalk]_vars

\* The order of the statements of easy_match.
WalkRank(pc) ==
  CASE pc = "markers" -> 0
    [] pc = "test" -> 1
    [] pc = "uc" -> 2
    [] pc = "lc" -> 3
    [] pc = "done" -> 4

\* C19: easy_match reads no character after the terminating NUL of either
\* string and ends with a boolean: both positions stay at or before the NUL;
\* a position is advanced by one, and only when the character under it is
\* not NUL; a call that has not returned can take a step, and each step
\* either moves on in the function or advances both positions.
C19_MatchInBounds ==
  /\ [] ( /\ walk.ps <= Len(ms) + 1
          /\ walk.pt <= Len(mt) + 1
          /\ walk.pc = "done" => walk.res \in BOOLEAN
          /\ walk.pc # "done" => ENABLED NextWalk )
  /\ [][ /\ walk'.ps # walk.ps
              => walk'.ps = walk.ps + 1 /\ At(ms, walk.ps) # NUL
         /\ walk'.pt # walk.pt
              => walk'.pt = walk.pt + 1 /\ At(mt, walk.pt) # NUL
         /\ WalkRank(walk'.pc) >= WalkRank(walk.pc)
         /\ walk'.pc = walk.pc
              => walk'.ps = walk.ps + 1 /\ walk'.pt = walk.pt + 1 ]_vars

\* The call for "AB" and "AB*" has returned true with s at its NUL and t
\* one character before its own.
C19_Witness ==
  /\ ms = << 65, 66 >>
  /\ mt = << 65, 66, 42 >>
  /\ walk.pc = "done"
  /\ walk.res = TRUE
  /\ walk.ps = 3
  /\ walk.pt = 3

====
